---- MODULE Spec2Model ----
(***************************************************************************)
(* A state-machine model of EquilibriumNet (src/src/equilibrium.py) and of *)
(* the finite-difference gradient check of src/src/equilibrium_tests.py.   *)
(*                                                                         *)
(* Tensors are records [shape, den, v]: shape is <<n>> (1-D) or <<r, c>>   *)
(* (2-D), v holds integer numerators and den is the common denominator of  *)
(* every entry, so that the divisions of the code (/ 2, / minibatch_size,  *)
(* mean, / (2 * dh)) are exact.  Python's None and a raised exception are   *)
(* the records None and Error.                                             *)
(***************************************************************************)
EXTENDS Integers, Sequences, FiniteSets, TLC

\* ------------------------------------------------------------------ bounds
\* Largest layer width and largest minibatch size the model enumerates.
MaxWidth == 2
MaxBatch == 2

\* The value 1.0 (upper clamp bound of rho) in the fixed-point unit in which
\* state particles are enumerated: a state entry n stands for n / One.
One == 4

\* The finite-difference step dh of test_energy_grad_state, as one step of
\* the same grid (the test's 10e-5 is below the grid; the comparison of the
\* estimate with the None that energy_grad_state returns fails for any step).
dh == 1

None == [none |-> TRUE]
Error == [error |-> TRUE]

\* ----------------------------------------------------------- small helpers
Min(a, b) == IF a < b THEN a ELSE b
Max(a, b) == IF a > b THEN a ELSE b
Abs(a) == IF a < 0 THEN -a ELSE a

RECURSIVE SumTo(_, _)
\* sum of f[1] .. f[n]
SumTo(f, n) == IF n <= 0 THEN 0 ELSE f[n] + SumTo(f, n - 1)

RECURSIVE SeqSum(_)
SeqSum(s) == IF s = <<>> THEN 0 ELSE Head(s) + SeqSum(Tail(s))

\* ------------------------------------------------------------ tensors
IsTensor(A) == A \notin {None, Error}
Dim(A) == Len(A.shape)
Rows(A) == A.shape[1]
Cols(A) == A.shape[2]

Vec(n, d, f(_)) == [shape |-> <<n>>, den |-> d, v |-> [i \in 1..n |-> f(i)]]
Mat(r, c, d, f(_, _)) ==
    [shape |-> <<r, c>>, den |-> d,
     v |-> [i \in 1..r |-> [j \in 1..c |-> f(i, j)]]]

\* The rational value of two entries agrees (cross-multiplied).
SameVal(a, da, b, db) == a * db = b * da

\* torch.zeros(r, c): float zeros.
zeros(r, c) == LET z(i, j) == 0 IN Mat(r, c, 1, z)

\* torch.t of a 2-D tensor.
t(A) == LET f(i, j) == A.v[j][i] IN Mat(Cols(A), Rows(A), A.den, f)

\* A tiling that copies the first entry of s everywhere instead of s itself.
repeat_first(s, m) == LET f(i, j) == s.v[1] IN Mat(m, s.shape[1], s.den, f)

\* Tensor.repeat(m, 1) of a 1-D tensor: m rows, each a copy of it.
repeat(s, m) == LET f(i, j) == s.v[j] IN Mat(m, s.shape[1], s.den, f)

\* Python slice bounds b:e over n rows (negative indices count from the end).
SliceIdx(i, n) == IF i < 0 THEN Max(i + n, 0) ELSE Min(i, n)
SliceLo(b, n) == SliceIdx(b, n)
SliceHi(b, e, n) == Max(SliceIdx(e, n), SliceIdx(b, n))

\* A[b:e] along axis 0 of a 2-D tensor, as a fresh value.
RowSlice(A, b, e) ==
    LET lo == SliceLo(b, Rows(A))
        hi == SliceHi(b, e, Rows(A))
        f(i, j) == A.v[lo + i][j]
    IN Mat(hi - lo, Cols(A), A.den, f)

\* v[b:e] of a 1-D tensor.
VecSlice(a, b, e) ==
    LET lo == SliceLo(b, a.shape[1])
        hi == SliceHi(b, e, a.shape[1])
        f(i) == a.v[lo + i]
    IN Vec(hi - lo, a.den, f)

\* torch.mm(A, B): defined when the inner sizes agree.
mmOk(A, B) == Dim(A) = 2 /\ Dim(B) = 2 /\ Cols(A) = Rows(B)
mm(A, B) ==
    LET f(i, j) == SumTo([k \in 1..Cols(A) |-> A.v[i][k] * B.v[k][j]], Cols(A))
    IN Mat(Rows(A), Cols(B), A.den * B.den, f)

\* torch.matmul(a, B) of a 1-D a and a 2-D B: the vector-matrix product.
vmOk(a, B) == Dim(a) = 1 /\ Dim(B) = 2 /\ a.shape[1] = Rows(B)
vm(a, B) ==
    LET f(j) == SumTo([k \in 1..Rows(B) |-> a.v[k] * B.v[k][j]], Rows(B))
    IN Vec(Cols(B), a.den * B.den, f)

\* Tensor.diag() of a 2-D tensor.
diag(A) == LET f(i) == A.v[i][i] IN Vec(Min(Rows(A), Cols(A)), A.den, f)

\* torch.sum(A, dim=0) and torch.mean(A, dim=1) of a 2-D tensor.
sum0(A) ==
    LET f(j) == SumTo([i \in 1..Rows(A) |-> A.v[i][j]], Rows(A))
    IN Vec(Cols(A), A.den, f)
mean1(A) ==
    LET f(i) == SumTo(A.v[i], Cols(A))
    IN Vec(Rows(A), A.den * Cols(A), f)

\* A ** 2, A / k and -a, elementwise.
square(A) == LET f(i, j) == A.v[i][j] * A.v[i][j] IN Mat(Rows(A), Cols(A), A.den * A.den, f)
divMat(A, k) == [A EXCEPT !.den = A.den * k]
divVec(a, k) == [a EXCEPT !.den = a.den * k]
neg(a) == LET f(i) == -a.v[i] IN Vec(a.shape[1], a.den, f)

RECURSIVE Gcd(_, _)
Gcd(a, b) == IF b = 0 THEN Abs(a) ELSE Gcd(Abs(b), Abs(a) % Abs(b))
Lcm(a, b) == (a * b) \div Gcd(a, b)

\* a + b and a - b of 1-D tensors; torch broadcasts a length-1 operand.
BroadcastOk(a, b) == a.shape[1] = b.shape[1] \/ a.shape[1] = 1 \/ b.shape[1] = 1
BIdx(a, i) == IF a.shape[1] = 1 THEN 1 ELSE i
BLen(a, b) == IF a.shape[1] = 1 THEN b.shape[1] ELSE a.shape[1]
add(a, b) ==
    LET d == Lcm(a.den, b.den)
        f(i) == a.v[BIdx(a, i)] * (d \div a.den) + b.v[BIdx(b, i)] * (d \div b.den)
    IN Vec(BLen(a, b), d, f)
sub(a, b) == add(a, neg(b))

\* The same 2-D tensor in lowest terms.
RECURSIVE GcdRow(_, _, _)
GcdRow(row, n, g) == IF n = 0 THEN g ELSE GcdRow(row, n - 1, Gcd(g, row[n]))
RECURSIVE GcdMat(_, _, _)
GcdMat(A, n, g) ==
    IF n = 0 THEN g ELSE GcdMat(A, n - 1, GcdRow(A.v[n], Cols(A), g))
Normalize(A) ==
    LET g == GcdMat(A, Rows(A), A.den)
        f(i, j) == A.v[i][j] \div g
    IN Mat(Rows(A), Cols(A), A.den \div g, f)

\* A[i] += k / d in place (0-based row i): every entry of the row moves.
iadd(A, i, k, d) ==
    LET c == Lcm(A.den, d)
        f(p, q) == A.v[p][q] * (c \div A.den) + (IF p = i + 1 THEN k * (c \div d) ELSE 0)
    IN Normalize(Mat(Rows(A), Cols(A), c, f))

\* The activation: torch.clamp(v, 0, 1).
rhoNum(n, d) == IF n < 0 THEN 0 ELSE IF n > d THEN d ELSE n
rho(A) ==
    IF Dim(A) = 1
    THEN LET f(i) == rhoNum(A.v[i], A.den) IN Vec(A.shape[1], A.den, f)
    ELSE LET g(i, j) == rhoNum(A.v[i][j], A.den) IN Mat(Rows(A), Cols(A), A.den, g)

\* Its derivative: 1 strictly inside (0, 1), else 0.
rhoprimeNum(n, d) == IF n > 0 /\ n < d THEN 1 ELSE 0
rhoprime(A) ==
    IF Dim(A) = 1
    THEN LET f(i) == rhoprimeNum(A.v[i], A.den) IN Vec(A.shape[1], 1, f)
    ELSE LET g(i, j) == rhoprimeNum(A.v[i][j], A.den) IN Mat(Rows(A), Cols(A), 1, g)

\* --------------------------------------------------------- enumerated inputs
\* Layer widths a caller may pass (non-positive ones included) and the
\* hidden-size lists: no hidden layer, one of any width, or two.
Widths == -1..MaxWidth
HiddenSizes == {<<>>} \cup {<<a>> : a \in Widths} \cup {<<1, MaxWidth>>, <<MaxWidth, 1>>}
BatchSizes == 1..MaxBatch
Seeds == {0, 1}

\* Entry tables of the enumerated tensors; entry (i, j) of the tensor with
\* seed s is the table's entry at (s + i + 2 j) modulo its length.
WeightVals == <<1, -1, 2>>
BiasVals == <<1, 0, -2>>
InputVals == <<1, 2, 0>>
StateVals == <<One \div 2, 0, One, -One, 2 * One>>
Pick(tab, s, i, j) == tab[((s + i + 2 * j) % Len(tab)) + 1]

GenMat(tab, d, s, r, c) ==
    LET f(i, j) == Pick(tab, s, i, j) IN Normalize(Mat(r, c, d, f))
GenVec(tab, d, s, n) ==
    LET f(i) == Pick(tab, s, i, 0)
        g == GcdRow([i \in 1..n |-> f(i)], n, d)
        h(i) == f(i) \div g
    IN Vec(n, d \div g, h)

\* ------------------------------------------------------------------- state
VARIABLES
    pc,                     \* "new", "ready" (constructed) or "failed"
    shape,                  \* self.shape
    partial_sums,           \* self.partial_sums
    minibatch_size,         \* self.minibatch_size
    heap,                   \* tensor storage: id -> tensor (or None)
    state_particles,        \* self.state_particles: a storage id (or None)
    layer_state_particles,  \* views [base, lo, hi]: rows lo+1..hi of heap[base]
    weights,                \* self.weights
    input_weights,          \* self.input_weights
    biases,                 \* self.biases
    layer_biases,           \* views [lo, hi] of self.biases
    last                    \* the call whose outcome the caller holds, or Idle

vars == <<pc, shape, partial_sums, minibatch_size, heap, state_particles,
          layer_state_particles, weights, input_weights, biases,
          layer_biases, last>>

netvars == <<shape, partial_sums, minibatch_size, heap, state_particles,
             layer_state_particles, weights, input_weights, biases,
             layer_biases>>


\* A layout that keeps the widths themselves instead of their running sums.
accumulate_widths(s) == s

\* itertools.accumulate(s, operator.add)
RECURSIVE accumulate(_)
accumulate(s) ==
    IF s = <<>> THEN <<>>
    ELSE LET p == accumulate(SubSeq(s, 1, Len(s) - 1))
         IN Append(p, SeqSum(s))

\* partial_sums[-1]
LastSum(ps) == ps[Len(ps)]

\* [t[b:e] for (b, e) in zip(ps[:-1], ps[1:])] as views of the tensor in slot id.
ViewsOf(id, A, ps) ==
    [i \in 1..(Len(ps) - 1) |->
        [base |-> id,
         lo |-> SliceLo(ps[i], Rows(A)),
         hi |-> SliceHi(ps[i], ps[i + 1], Rows(A))]]

\* The tensor a view reads: its rows of the storage it aliases.
ReadView(h, w) ==
    LET f(i, j) == h[w.base].v[w.lo + i][j]
    IN Mat(w.hi - w.lo, Cols(h[w.base]), h[w.base].den, f)

\* Storage slots: Live holds the tensor the per-layer views alias, Spare a
\* tensor that state_particles refers to while the views alias another one.
Live == "live"
Spare == "spare"
Ids == {Live, Spare}

\* set_batch_size(minibatch_size, initial_state=init) on a network whose
\* partial sums are ps: the fields it leaves behind and whether it returned
\* (ok) or raised.  The state buffer is replaced before it is validated, and
\* the views are rebuilt only after the assertions: when one fails, the views
\* go on aliasing the tensor they aliased before.
set_batch_size(ps, h, views, m, init) ==
    LET n == LastSum(ps)
        raised(A) == [ok |-> FALSE, minibatch_size |-> m,
                      heap |-> [x \in Ids |-> IF x = Spare THEN A ELSE h[Live]],
                      state_particles |-> Spare,
                      layer_state_particles |-> views]
        done(A) == [ok |-> TRUE, minibatch_size |-> m,
                    heap |-> [x \in Ids |-> IF x = Live THEN A ELSE None],
                    state_particles |-> Live,
                    layer_state_particles |-> ViewsOf(Live, A, ps)]
    IN IF init = None
       THEN IF n < 0 \/ m < 0 THEN raised(None) ELSE done(zeros(n, m))
       ELSE IF Dim(init) = 1
       THEN LET tiled == t(repeat(init, m))
            IN IF Rows(tiled) = n THEN done(tiled) ELSE raised(tiled)
       ELSE IF init.shape = <<n, m>> THEN done(init) ELSE raised(init)

\* ------------------------------------------------------------- construction
\* torch.randn(D_out, D_in) for every layer: any values; raises on a
\* negative size.
randnOk(sh) == \A i \in 1..Len(sh) : sh[i] >= 0
randnWeights(s, sh) ==
    [l \in 1..(Len(sh) - 1) |-> GenMat(WeightVals, 1, s + l, sh[l + 1], sh[l])]

\* Weights a caller may supply for the layer sizes sh: well-shaped ones, one
\* matrix too few, one too many, and a first matrix with a column too many.
\* A supplied Python list of tensors is the record [list |-> <<...>>].
GoodWeights(s, sh) ==
    [l \in 1..(Len(sh) - 1) |->
        GenMat(WeightVals, 1, s + l, Max(sh[l + 1], 0), Max(sh[l], 0))]
WeightArgs(sh) ==
    {None} \cup {[list |-> GoodWeights(s, sh)] : s \in Seeds}
    \cup {[list |-> SubSeq(GoodWeights(0, sh), 1, Len(sh) - 2)],
          [list |-> Append(GoodWeights(0, sh), GenMat(WeightVals, 1, 0, 1, 1))],
          [list |-> [GoodWeights(1, sh) EXCEPT ![1] =
              GenMat(WeightVals, 1, 1, Max(sh[2], 0), Max(sh[1], 0) + 1)]]}

\* Biases a caller may supply for n non-input neurons: the right length, one
\* short (when there is one) and one long.
BiasArgs(n) ==
    {None, GenVec(BiasVals, 1, 1, Max(n, 0)),
     GenVec(BiasVals, 1, 1, Max(n, 1) - 1), GenVec(BiasVals, 1, 1, Max(n, 0) + 1)}

\* Initial states a caller may pass for n state particles and batch size m:
\* none, 1-D of length n or n + 1, 2-D of shape (n, m) or (n, m + 1).
StateArgs(n, m) ==
    {None, GenVec(StateVals, One, 0, Max(n, 0)), GenVec(StateVals, One, 1, Max(n, 0) + 1),
     GenMat(StateVals, One, 1, Max(n, 0), m), GenMat(StateVals, One, 0, Max(n, 0), m + 1)}

\* A validation that checks the shapes of the supplied matrices but not
\* their number.
WeightsValid_shapes_only(w, sh) ==
    \A l \in 1..Min(Len(w), Len(sh) - 1) : w[l].shape = <<sh[l + 1], sh[l]>>

\* The assertions on supplied weights (lines 123-128).
WeightsValid(w, sh) ==
    /\ Len(w) = Len(sh) - 1
    /\ \A l \in 1..Len(w) : w[l].shape = <<sh[l + 1], sh[l]>>

\* A flattening that takes the columns of a weight matrix instead of its rows.
RowsOf_columns(W) ==
    [q \in 1..Cols(W) |-> LET f(p) == W.v[p][q] IN Vec(Rows(W), W.den, f)]

\* itertools.chain.from_iterable([[w[p] for p in range(len(w))] for w in weights])
RECURSIVE Chain(_)
Chain(ss) == IF ss = <<>> THEN <<>> ELSE Head(ss) \o Chain(Tail(ss))
RowsOf(W) ==
    [p \in 1..Rows(W) |-> LET f(q) == W.v[p][q] IN Vec(Cols(W), W.den, f)]
InputWeights(w) == Chain([l \in 1..Len(w) |-> RowsOf(w[l])])

\* [biases[b:e] for (b, e) in zip(ps[:-1], ps[1:])] as index ranges.
BiasViews(b, ps) ==
    [i \in 1..(Len(ps) - 1) |->
        [lo |-> SliceLo(ps[i], b.shape[1]),
         hi |-> SliceHi(ps[i], ps[i + 1], b.shape[1])]]

\* No call is outstanding: the caller is free to make the next one.
Idle == [op |-> "none"]

\* The network no constructor call has produced.
NoViews == <<>>
NoHeap == [x \in Ids |-> None]

\* __init__: the arguments are recorded in last; rw is the draw of
\* torch.randn for weights not supplied.
Construct ==
    /\ pc = "new"
    /\ \E input_size \in Widths, layer_sizes \in HiddenSizes,
          output_size \in Widths, m \in BatchSizes, rw \in Seeds :
       LET sh == <<input_size>> \o layer_sizes \o <<output_size>>
           ps == <<0>> \o accumulate(Tail(sh))
       IN \E kw \in WeightArgs(sh), kb \in BiasArgs(LastSum(ps)),
             ki \in StateArgs(LastSum(ps), m) :
          LET sb == set_batch_size(ps, NoHeap, NoViews, m, ki)
              w == IF kw = None THEN randnWeights(rw, sh) ELSE kw.list
              wOk == IF kw = None THEN randnOk(sh) ELSE WeightsValid(kw.list, sh)
              b == IF kb = None THEN GenVec(BiasVals, 1, 0, LastSum(ps)) ELSE kb
              bOk == IF kb = None THEN LastSum(ps) >= 0
                                  ELSE kb.shape[1] = LastSum(ps)
              ok == sb.ok /\ wOk /\ bOk
              args == [input_size |-> input_size, layer_sizes |-> layer_sizes,
                       output_size |-> output_size, minibatch_size |-> m,
                       weights |-> kw, biases |-> kb, initial_state |-> ki]
          IN /\ last' = [op |-> "__init__", args |-> args,
                         out |-> IF ok THEN None ELSE Error]
             /\ IF ok
                THEN /\ pc' = "ready"
                     /\ shape' = sh
                     /\ partial_sums' = ps
                     /\ minibatch_size' = sb.minibatch_size
                     /\ heap' = sb.heap
                     /\ state_particles' = sb.state_particles
                     /\ layer_state_particles' = sb.layer_state_particles
                     /\ weights' = w
                     /\ input_weights' = InputWeights(w)
                     /\ biases' = b
                     /\ layer_biases' = BiasViews(b, ps)
                ELSE /\ pc' = "failed"
                     /\ UNCHANGED netvars

\* ------------------------------------------------------------------ energy
\* sum(list) of 1-D tensors: Python starts from the int 0.
Zero == LET f(i) == 0 IN Vec(1, 1, f)
RECURSIVE SumList(_)
SumList(ts) ==
    IF ts = <<>> THEN Zero
    ELSE add(SumList(SubSeq(ts, 1, Len(ts) - 1)), ts[Len(ts)])
RECURSIVE SumListOk(_)
SumListOk(ts) ==
    \/ ts = <<>>
    \/ /\ SumListOk(SubSeq(ts, 1, Len(ts) - 1))
       /\ BroadcastOk(SumList(SubSeq(ts, 1, Len(ts) - 1)), ts[Len(ts)])

\* The tensors of energy(x), read through the network's fields: h is the
\* storage, sp the buffer's slot, views the per-layer views, w and b the
\* parameters.
squared_norm(h, sp) == divVec(sum0(square(h[sp])), 2)
bias_sum(h, sp, b) == vm(b, rho(h[sp]))
\* zip(weights[1:], layer_state_particles[1:])
NextCount(w, views) == Min(Len(w), Len(views)) - 1
next_weights(h, views, w) ==
    [j \in 1..NextCount(w, views) |->
        mm(t(w[j + 1]), rho(ReadView(h, views[j + 1])))]
next_weightsOk(h, views, w) ==
    \A j \in 1..NextCount(w, views) :
        mmOk(t(w[j + 1]), rho(ReadView(h, views[j + 1])))
\* zip(next_weights, layer_state_particles[:-1])
tensor_terms(h, views, w) ==
    LET nw == next_weights(h, views, w)
    IN [j \in 1..NextCount(w, views) |->
           diag(mm(t(nw[j]), rho(ReadView(h, views[j]))))]
tensor_termsOk(h, views, w) ==
    LET nw == next_weights(h, views, w)
    IN \A j \in 1..NextCount(w, views) :
           mmOk(t(nw[j]), rho(ReadView(h, views[j])))
tensor_product(h, views, w) == SumList(tensor_terms(h, views, w))
\* An input coupling without the leading minus sign.
input_sums_positive(h, views, w, x) ==
    diag(mm(x, mm(t(w[1]), rho(ReadView(h, views[1])))))

input_sumsOk(h, views, w, x) ==
    /\ mmOk(t(w[1]), rho(ReadView(h, views[1])))
    /\ mmOk(x, mm(t(w[1]), rho(ReadView(h, views[1]))))
input_sums(h, views, w, x) ==
    neg(diag(mm(x, mm(t(w[1]), rho(ReadView(h, views[1]))))))

\* energy(x): input_sums + squared_norm - bias_sum - tensor_product, or Error
\* when the assertion on x fails or a product or sum has operands whose sizes
\* do not match.
energy(sh, m, h, sp, views, w, b, x) ==
    IF /\ x.shape = <<m, sh[1]>>
       /\ vmOk(b, rho(h[sp]))
       /\ next_weightsOk(h, views, w)
       /\ tensor_termsOk(h, views, w)
       /\ SumListOk(tensor_terms(h, views, w))
       /\ input_sumsOk(h, views, w, x)
    THEN LET a1 == input_sums(h, views, w, x)
             a2 == squared_norm(h, sp)
             a3 == bias_sum(h, sp, b)
             a4 == tensor_product(h, views, w)
         IN IF /\ BroadcastOk(a1, a2)
               /\ BroadcastOk(add(a1, a2), a3)
               /\ BroadcastOk(sub(add(a1, a2), a3), a4)
            THEN sub(sub(add(a1, a2), a3), a4)
            ELSE Error
    ELSE Error

\* Input batches a caller may pass: the shape (m, input_size) or a column more.
GoodInput(m, n) == GenMat(InputVals, 1, 0, m, n)
InputArgs(m, n) == {GoodInput(m, n), GenMat(InputVals, 1, 1, m, n + 1)}

Energy ==
    /\ pc = "ready"
    /\ last = Idle
    /\ \E x \in InputArgs(minibatch_size, shape[1]) :
          last' = [op |-> "energy", x |-> x,
                   out |-> energy(shape, minibatch_size, heap, state_particles,
                                  layer_state_particles, weights, biases, x)]
    /\ UNCHANGED <<pc, netvars>>

\* ------------------------------------------------------- energy_grad_state
\* res = [torch.matmul(weights, layer) for weights, layer in
\*        zip(self.weights[1:], self.layer_state_particles[:-1])]
grad_state_res(h, views, w) ==
    [j \in 1..NextCount(w, views) |-> mm(w[j + 1], ReadView(h, views[j]))]
grad_state_resOk(h, views, w) ==
    \A j \in 1..NextCount(w, views) : mmOk(w[j + 1], ReadView(h, views[j]))

\* The last dimension torch.nn.functional.pad leaves to
\* matmul(weights[0], t(x)) with padding (0, partial_sums[-1] - shape[0]).
PaddedCols(sh, ps, x) == Rows(x) + (LastSum(ps) - sh[1])

\* energy_grad_state(x) computes dact, res and input_product, prints their
\* shapes and ends without a return statement: it yields None unless one of
\* its tensor operations raises.  What a padding that crops the dimension to
\* exactly 0 does depends on the torch release (accepted or rejected).
energy_grad_state(sh, ps, m, h, views, w, x) ==
    IF \/ x.shape # <<m, sh[1]>>
       \/ ~grad_state_resOk(h, views, w)
       \/ grad_state_res(h, views, w) = <<>>        \* torch.cat of no tensor
       \/ ~mmOk(w[1], t(x))
       \/ PaddedCols(sh, ps, x) < 0
    THEN {Error}
    ELSE IF PaddedCols(sh, ps, x) = 0 THEN {None, Error} ELSE {None}

EnergyGradState ==
    /\ pc = "ready"
    /\ last = Idle
    /\ \E x \in InputArgs(minibatch_size, shape[1]) :
       \E out \in energy_grad_state(shape, partial_sums, minibatch_size, heap,
                                    layer_state_particles, weights, x) :
          last' = [op |-> "energy_grad_state", x |-> x, out |-> out]
    /\ UNCHANGED <<pc, netvars>>

\* ------------------------------------------------------ energy_grad_weight
\* layer_states = [t(x)] + [rho(state)[b:e] for (b, e) in zip(ps[:-1], ps[1:])]
layer_states(ps, state, x) ==
    <<t(x)>> \o [i \in 1..(Len(ps) - 1) |-> RowSlice(rho(state), ps[i], ps[i + 1])]

energy_grad_weightOk(ps, h, sp, state, x) ==
    /\ state.shape = h[sp].shape
    /\ LET ls == layer_states(ps, state, x)
       IN \A l \in 1..(Len(ps) - 1) : mmOk(ls[l + 1], t(ls[l]))

\* energy_grad_weight(state, x): (weight_grad, bias_grad).
energy_grad_weight(ps, m, h, sp, state, x) ==
    IF energy_grad_weightOk(ps, h, sp, state, x)
    THEN LET ls == layer_states(ps, state, x)
         IN [weight_grad |->
                 [l \in 1..(Len(ps) - 1) |-> divMat(mm(ls[l + 1], t(ls[l])), m)],
             bias_grad |-> mean1(rho(state))]
    ELSE Error

\* Calls a caller may make: a state of the buffer's shape with an input batch
\* of shape (minibatch_size, input_size), a state with a row more, and an
\* input batch with a row more.
GradWeightArgs(A, m, n) ==
    {<<GenMat(StateVals, One, s, Rows(A), Cols(A)), GoodInput(m, n)>> : s \in Seeds}
    \cup {<<GenMat(StateVals, One, 0, Rows(A) + 1, Cols(A)), GoodInput(m, n)>>,
          <<GenMat(StateVals, One, 1, Rows(A), Cols(A)), GenMat(InputVals, 1, 1, m + 1, n)>>}

EnergyGradWeight ==
    /\ pc = "ready"
    /\ last = Idle
    /\ \E a \in GradWeightArgs(heap[state_particles], minibatch_size, shape[1]) :
          last' = [op |-> "energy_grad_weight", state |-> a[1], x |-> a[2],
                   out |-> energy_grad_weight(partial_sums, minibatch_size, heap,
                                              state_particles, a[1], a[2])]
    /\ UNCHANGED <<pc, netvars>>

\* ------------------------------------------------- test_energy_grad_state
\* relative_error(a, b) < tol for the rationals a = an / ad, b = bn / bd and
\* tol = tn / td; with a = b = 0 the quotient is nan and the test fails.
relative_error_below(an, ad, bn, bd, tn, td) ==
    LET diff == Abs(an * bd - bn * ad)
        total == Abs(an) * bd + Abs(bn) * ad
    IN total # 0 /\ diff * td < tn * total

\* The tolerance of the test's assertion, 10e-6.
Tolerance == [num |-> 1, den |-> 100000]

\* The finite-difference loop of the test (lines 59-72) on the constructed
\* network and an input x, one iteration: perturb state row i by +dh, take
\* energy, by -2 dh, take energy, restore by +dh, compare the central
\* difference with energy_grad_state(x).  The comparison of a tensor with
\* None raises, and so does a raising energy_grad_state: the loop never
\* reaches a second iteration.  With no state particle there is no iteration.
GradCheck ==
    /\ pc = "ready"
    /\ last = Idle
    /\ heap[state_particles].shape = <<LastSum(partial_sums), minibatch_size>>
    /\ \E x \in {GoodInput(minibatch_size, shape[1])} :
       IF LastSum(partial_sums) = 0
       THEN /\ last' = [op |-> "test_energy_grad_state", x |-> x, out |-> None]
            /\ UNCHANGED netvars
       ELSE \E true_grad \in energy_grad_state(shape, partial_sums, minibatch_size,
                                heap, layer_state_particles, weights, x) :
            LET up == [heap EXCEPT ![state_particles] = iadd(@, 0, dh, One)]
                f_plus == energy(shape, minibatch_size, up, state_particles,
                                 layer_state_particles, weights, biases, x)
                down == [up EXCEPT ![state_particles] = iadd(@, 0, -2 * dh, One)]
                f_minus == energy(shape, minibatch_size, down, state_particles,
                                  layer_state_particles, weights, biases, x)
                back == [down EXCEPT ![state_particles] = iadd(@, 0, dh, One)]
                grad_check == [sub(f_plus, f_minus) EXCEPT
                                  !.v = [k \in DOMAIN @ |-> @[k] * One],
                                  !.den = @ * 2 * dh]
            IN /\ heap' = back
               /\ last' = [op |-> "test_energy_grad_state", x |-> x, i |-> 0,
                           grad_check |-> grad_check, true_grad |-> true_grad,
                           restored |-> (back = heap), out |-> Error]
               /\ UNCHANGED <<shape, partial_sums, minibatch_size, state_particles,
                              layer_state_particles, weights, input_weights,
                              biases, layer_biases>>
    /\ pc' = pc

\* ----------------------------------------------------------- set_batch_size
\* net.set_batch_size(m, initial_state=init) on the constructed network; a
\* raised assertion leaves the fields as the method had set them by then.
SetBatchSize ==
    /\ pc = "ready"
    /\ last = Idle
    /\ \E m \in BatchSizes : \E init \in StateArgs(LastSum(partial_sums), m) :
       LET sb == set_batch_size(partial_sums, heap, layer_state_particles, m, init)
       IN /\ minibatch_size' = sb.minibatch_size
          /\ heap' = sb.heap
          /\ state_particles' = sb.state_particles
          /\ layer_state_particles' = sb.layer_state_particles
          /\ last' = [op |-> "set_batch_size", m |-> m, initial_state |-> init,
                      out |-> IF sb.ok THEN None ELSE Error]
          /\ UNCHANGED <<pc, shape, partial_sums, weights, input_weights,
                         biases, layer_biases>>

\* The caller is single-threaded and synchronous: it takes the outcome of a
\* call before it makes the next one.
Return ==
    /\ pc = "ready"
    /\ last # Idle
    /\ last' = Idle
    /\ UNCHANGED <<pc, netvars>>

Init ==
    /\ pc = "new"
    /\ shape = <<>>
    /\ partial_sums = <<>>
    /\ minibatch_size = 0
    /\ heap = NoHeap
    /\ state_particles = Live
    /\ layer_state_particles = NoViews
    /\ weights = <<>>
    /\ input_weights = <<>>
    /\ biases = None
    /\ layer_biases = <<>>
    /\ last = Idle

Next ==
    \/ Construct
    \/ SetBatchSize
    \/ Energy
    \/ EnergyGradState
    \/ EnergyGradWeight
    \/ GradCheck
    \/ Return

Spec == Init /\ [][Next]_vars

\* ================================================================== claims
Ready == pc = "ready"
\* The state buffer and its numerators, denominator and row count.
Buffer == heap[state_particles]
TotalNeurons == LastSum(partial_sums)
\* The buffer has the shape the layout implies for the current batch size.
BufferWellShaped == Buffer.shape = <<TotalNeurons, minibatch_size>>
\* An input batch of shape (minibatch_size, input_size).
InputWellShaped(x) == x.shape = <<minibatch_size, shape[1]>>

\* Every layer width is a positive integer, as the specification requires.
PositiveWidths == \A i \in 1..Len(shape) : shape[i] >= 1

\* The clamp to [0, 1] of n / d, as a numerator over d.
Clamp01(n, d) == Max(0, Min(n, d))
\* The sum of f(i) over i in 1..n.
Sigma(n, f(_)) == SumTo([i \in 1..n |-> f(i)], n)

\* Entry (p, k) of the layer-l slice [partial_sums[l] : partial_sums[l+1]] of a
\* 2-D state tensor A, activated (l = 1 is the first non-input layer).
Act(A, l, p, k) == Clamp01(A.v[partial_sums[l] + p][k], A.den)

\* The four terms of the energy of batch element k, each as a numerator over
\* 2 * den^2 (den the buffer's denominator), for integer weights, biases and x.
SquaredNormNum(k) == Sigma(TotalNeurons, LAMBDA i : Buffer.v[i][k] * Buffer.v[i][k])
BiasNum(k) ==
    2 * Buffer.den *
    Sigma(TotalNeurons, LAMBDA i : biases.v[i] * Clamp01(Buffer.v[i][k], Buffer.den))
InputCouplingNum(x, k) ==
    -(2 * Buffer.den *
      Sigma(shape[1], LAMBDA q :
          x.v[k][q] * Sigma(shape[2], LAMBDA p : weights[1].v[p][q] * Act(Buffer, 1, p, k))))
InterLayerNum(k) ==
    2 * Sigma(Len(weights) - 1, LAMBDA j :
          Sigma(shape[j + 1], LAMBDA q :
              Act(Buffer, j, q, k) *
              Sigma(shape[j + 2], LAMBDA p :
                  weights[j + 1].v[p][q] * Act(Buffer, j + 1, p, k))))
EnergyNum(x, k) ==
    SquaredNormNum(k) - BiasNum(k) + InputCouplingNum(x, k) - InterLayerNum(k)

\* C1: on a network whose state buffer S has shape (partial_sums[-1],
\* minibatch_size), energy(x) for x of shape (minibatch_size, input_size)
\* returns a vector of exactly minibatch_size entries, entry k being
\* squared_norm_k - bias_k + input_coupling_k - inter_layer_k, with
\* squared_norm_k = 1/2 sum_i S[i,k]^2, bias_k = sum_i b[i] rho(S[i,k]),
\* input_coupling_k = -(x[k,:] . W_0^T rho(S_0[:,k])) and inter_layer_k the sum
\* over layers l >= 1 of rho(S_{l-1}[:,k]) . W_l^T rho(S_l[:,k]).
C1_EnergyFormula ==
    (Ready /\ last.op = "energy" /\ BufferWellShaped /\ InputWellShaped(last.x))
    => /\ last.out # Error
       /\ last.out.shape = <<minibatch_size>>
       /\ \A k \in 1..minibatch_size :
             SameVal(last.out.v[k], last.out.den,
                     EnergyNum(last.x, k), 2 * Buffer.den * Buffer.den)

\* C1 witness: energy has returned on a network with a hidden layer, a batch
\* of two or more, a state particle strictly inside (0, 1), and non-zero
\* input and inter-layer couplings.
C1_Witness ==
    /\ Ready /\ last.op = "energy" /\ last.out # Error
    /\ BufferWellShaped /\ minibatch_size >= 2 /\ Len(shape) >= 3
    /\ \E i \in 1..TotalNeurons, k \in 1..minibatch_size :
          Buffer.v[i][k] > 0 /\ Buffer.v[i][k] < Buffer.den
    /\ \E k \in 1..minibatch_size :
          InputCouplingNum(last.x, k) # 0 /\ InterLayerNum(k) # 0
    /\ last.out.v[1] # last.out.v[2]

\* The layer (1 = first non-input layer) that holds state component i.
LayerOf(i) ==
    CHOOSE l \in 1..(Len(partial_sums) - 1) :
        partial_sums[l] < i /\ i <= partial_sums[l + 1]

\* The gradient of the energy of batch element k with respect to state
\* component i, as a numerator over the buffer's denominator:
\* S[i,k] - rhoprime(S[i,k]) * (incoming + outgoing + b[i]).
IncomingNum(x, l, p, k) ==
    IF l = 1
    THEN Buffer.den * Sigma(shape[1], LAMBDA q : weights[1].v[p][q] * x.v[k][q])
    ELSE Sigma(shape[l], LAMBDA q : weights[l].v[p][q] * Act(Buffer, l - 1, q, k))
OutgoingNum(l, p, k) ==
    IF l = Len(weights)
    THEN 0
    ELSE Sigma(shape[l + 2], LAMBDA r : weights[l + 1].v[r][p] * Act(Buffer, l + 1, r, k))
GradNum(x, i, k) ==
    LET l == LayerOf(i)
        p == i - partial_sums[l]
        inside == Buffer.v[i][k] > 0 /\ Buffer.v[i][k] < Buffer.den
    IN Buffer.v[i][k]
       - (IF inside
          THEN IncomingNum(x, l, p, k) + OutgoingNum(l, p, k) + Buffer.den * biases.v[i]
          ELSE 0)

\* C2: energy_grad_state(x), for x of shape (minibatch_size, input_size),
\* returns for every state component i and batch element k the value
\* S[i,k] - rhoprime(S[i,k]) * (incoming + outgoing + b[i]); the incoming sum
\* of a first-layer neuron is its row of weights[0] applied to x[k,:], that of
\* a later one its weight row applied to the activated preceding layer, and
\* the outgoing sum of a last-layer neuron is zero.
C2_StateGradientFormula ==
    (Ready /\ last.op = "energy_grad_state" /\ PositiveWidths
           /\ BufferWellShaped /\ InputWellShaped(last.x))
    => /\ IsTensor(last.out)
       /\ last.out.shape = <<TotalNeurons, minibatch_size>>
       /\ \A i \in 1..TotalNeurons, k \in 1..minibatch_size :
             SameVal(last.out.v[i][k], last.out.den, GradNum(last.x, i, k), Buffer.den)

\* C3: in the gradient check, the value energy_grad_state(x) gives for the
\* perturbed component agrees, for every batch element, with the central
\* difference of energy within the tolerance, and the state buffer is back at
\* its original value after the perturbation.
C3_GradientCheckPasses ==
    (Ready /\ last.op = "test_energy_grad_state" /\ PositiveWidths)
    => /\ last.restored
       /\ IsTensor(last.true_grad)
       /\ \A k \in 1..minibatch_size :
             relative_error_below(
                 last.grad_check.v[k], last.grad_check.den,
                 last.true_grad.v[last.i + 1][k], last.true_grad.den,
                 Tolerance.num, Tolerance.den)

\* Entry (p, q) of the weight gradient of connection l (1 = input to first
\* layer) at the supplied state A and input x, as a numerator, and the
\* denominator it is over.
WeightGradNum(A, x, l, p, q) ==
    Sigma(minibatch_size, LAMBDA k :
        Act(A, l, p, k) * (IF l = 1 THEN x.v[k][q] ELSE Act(A, l - 1, q, k)))
WeightGradDen(A, l) ==
    (IF l = 1 THEN A.den ELSE A.den * A.den) * minibatch_size

\* What C4 promises of a returned (weight_grad, bias_grad) for the state A and
\* the input batch x.
GradWeightAsClaimed(out, A, x) ==
    /\ out # Error
    /\ out.bias_grad.shape = <<TotalNeurons>>
    /\ \A i \in 1..TotalNeurons :
          SameVal(out.bias_grad.v[i], out.bias_grad.den,
                  Sigma(minibatch_size, LAMBDA k : Clamp01(A.v[i][k], A.den)),
                  A.den * minibatch_size)
    /\ Len(out.weight_grad) = Len(weights)
    /\ \A l \in 1..Len(weights) :
          /\ out.weight_grad[l].shape = weights[l].shape
          /\ \A p \in 1..shape[l + 1], q \in 1..shape[l] :
                SameVal(out.weight_grad[l].v[p][q], out.weight_grad[l].den,
                        WeightGradNum(A, x, l, p, q), WeightGradDen(A, l))

\* C4: for any state tensor of the shape of the network's state buffer and
\* any input batch x, energy_grad_weight(state, x) returns bias_grad[i] = the
\* mean over the minibatch of rho(state[i,:]) and weight_grad[l] =
\* A_{l+1} A_l^T / minibatch_size (A_0 = x^T, A_{l+1} the activated layer-l
\* slice of the state), weight_grad[l] of the shape of weights[l] and
\* bias_grad of length partial_sums[-1].
C4_WeightGradientFormula ==
    (Ready /\ last.op = "energy_grad_weight" /\ PositiveWidths
           /\ last.state.shape = Buffer.shape /\ InputWellShaped(last.x))
    => GradWeightAsClaimed(last.out, last.state, last.x)

\* The same on a network whose state buffer has the shape the layout implies:
\* there the promise of C4 holds.
GradWeightOnWellShapedBuffer ==
    (Ready /\ last.op = "energy_grad_weight" /\ BufferWellShaped
           /\ last.state.shape = Buffer.shape /\ InputWellShaped(last.x))
    => GradWeightAsClaimed(last.out, last.state, last.x)

\* The arguments of the constructor call whose outcome the caller holds.
CtorCalled == last.op = "__init__"
CtorReturned == Ready /\ CtorCalled
CtorShape == <<last.args.input_size>> \o last.args.layer_sizes \o <<last.args.output_size>>
CtorNeurons == SeqSum(last.args.layer_sizes) + last.args.output_size

\* C5 (state part): partial_sums starts with 0 and its steps are the widths
\* of the non-input layers; right after construction shape is [input_size] +
\* hidden_sizes + [output_size], and partial_sums[-1] = sum(hidden_sizes) +
\* output_size is the number of rows of state_particles and the length of
\* biases.
LayoutInvariant ==
    /\ Ready => /\ Len(partial_sums) = Len(shape)
                /\ partial_sums[1] = 0
                /\ \A i \in 1..(Len(shape) - 1) :
                      partial_sums[i + 1] - partial_sums[i] = shape[i + 1]
    /\ CtorReturned => /\ shape = CtorShape
                       /\ TotalNeurons = CtorNeurons
                       /\ Rows(Buffer) = TotalNeurons
                       /\ biases.shape = <<TotalNeurons>>

\* C5: the layout of LayoutInvariant holds for every construction, and no
\* later operation (set_batch_size, energy, energy_grad_state,
\* energy_grad_weight) changes shape or partial_sums.
C5_LayoutFixed ==
    /\ []LayoutInvariant
    /\ [][Ready => (shape' = shape /\ partial_sums' = partial_sums)]_vars

\* C5 witness: a network with a hidden layer of unequal positive widths whose
\* batch size was changed after construction.
C5_Witness ==
    /\ Ready /\ last.op = "set_batch_size" /\ last.out = None
    /\ Len(shape) = 4 /\ PositiveWidths /\ shape[2] # shape[3]
    /\ partial_sums[4] = shape[2] + shape[3] + shape[4]

\* C6 (state part): after a successful set_batch_size(m, initial_state) the
\* buffer has shape (partial_sums[-1], m); it is all zeros when no initial
\* state was given, its every column is the given vector when a 1-D state
\* was given, and it is the given tensor when a 2-D state was given.
SetBatchSizeResult ==
    (Ready /\ last.op = "set_batch_size" /\ last.out = None)
    => /\ minibatch_size = last.m
       /\ Buffer.shape = <<TotalNeurons, last.m>>
       /\ last.initial_state = None
          => \A i \in 1..TotalNeurons, j \in 1..last.m : Buffer.v[i][j] = 0
       /\ (last.initial_state # None /\ Dim(last.initial_state) = 1)
          => /\ last.initial_state.shape = <<TotalNeurons>>
             /\ \A i \in 1..TotalNeurons, j \in 1..last.m :
                   SameVal(Buffer.v[i][j], Buffer.den,
                           last.initial_state.v[i], last.initial_state.den)
       /\ (last.initial_state # None /\ Dim(last.initial_state) = 2)
          => Buffer = last.initial_state

\* C6: SetBatchSizeResult, and the call leaves weights and biases untouched.
C6_SetBatchSize ==
    /\ []SetBatchSizeResult
    /\ [][(Ready /\ last'.op = "set_batch_size")
          => (weights' = weights /\ biases' = biases)]_vars

\* C6 witness: a 1-D initial state with two different entries was tiled
\* over a batch of two or more.
C6_Witness ==
    /\ Ready /\ last.op = "set_batch_size" /\ last.out = None
    /\ last.initial_state # None /\ Dim(last.initial_state) = 1
    /\ last.m >= 2 /\ TotalNeurons >= 2
    /\ last.initial_state.v[1] # last.initial_state.v[2]

\* The three conditions of C7 on the supplied parameters, from the arguments.
WeightCountOk == Len(last.args.weights.list) = Len(CtorShape) - 1
WeightShapesOk ==
    \A i \in 1..Min(Len(last.args.weights.list), Len(CtorShape) - 1) :
        last.args.weights.list[i].shape = <<CtorShape[i + 1], CtorShape[i]>>
SuppliedOk ==
    /\ last.args.weights # None => (WeightCountOk /\ WeightShapesOk)
    /\ last.args.biases # None => last.args.biases.shape = <<CtorNeurons>>
SuppliedKept ==
    /\ last.args.weights # None => weights = last.args.weights.list
    /\ last.args.biases # None => biases = last.args.biases
WithSupplied == last.args.weights # None \/ last.args.biases # None

\* The other arguments are such that nothing else fails: every layer size is
\* positive, and an initial state, when given, is 1-D of length
\* partial_sums[-1] or 2-D of shape (partial_sums[-1], minibatch_size).
OtherArgsOk ==
    /\ \A i \in 1..Len(CtorShape) : CtorShape[i] > 0
    /\ \/ last.args.initial_state = None
       \/ last.args.initial_state.shape = <<CtorNeurons>>
       \/ last.args.initial_state.shape = <<CtorNeurons, last.args.minibatch_size>>

C8_RejectsNonPositiveSizes ==
    (CtorCalled /\ \E i \in 1..Len(CtorShape) : CtorShape[i] <= 0)
    => (pc = "failed" /\ last.out = Error)

C10_BufferAndViewsConsistent ==
    (Ready /\ PositiveWidths)
    => /\ BufferWellShaped
       /\ \A i \in 1..(Len(partial_sums) - 1) :
             layer_state_particles[i] =
                 [base |-> state_particles,
                  lo |-> partial_sums[i], hi |-> partial_sums[i + 1]]

\* Whenever the buffer has the shape the layout implies, the views alias it:
\* the stale views a failed set_batch_size leaves behind never meet a
\* well-shaped buffer.
WellShapedBufferIsAliased ==
    (Ready /\ BufferWellShaped)
    => \A i \in 1..(Len(partial_sums) - 1) :
          layer_state_particles[i] =
              [base |-> state_particles,
               lo |-> partial_sums[i], hi |-> partial_sums[i + 1]]

====
